---- MODULE Spec2Model ----
(***************************************************************************)
(* knox.auth.TokenAuthentication: verification of a bearer token against   *)
(* the store of salted-digest AuthToken rows, with the lazy expiry cleanup *)
(* and the throttled expiry renewal done on the verification path.         *)
(*                                                                         *)
(* Every request is one run of authenticate(); the requests of Calls run   *)
(* concurrently and share only the database (store) and the clock (now).   *)
(* One action is one step of a request between two accesses to the shared  *)
(* state: a query, a row delete, a row update.  A model instance read from *)
(* the database is a copy: it keeps the values read, whatever happens to   *)
(* the row afterwards.                                                     *)
(***************************************************************************)
EXTENDS Integers, Sequences, FiniteSets, TLC

\* Python's None for AuthToken.expires: the field is <<>> when unset and <<t>>
\* when set to the time t.
None == <<>>

At(t) == <<t>>

-----------------------------------------------------------------------------
(* Bounds of the model *)

\* The clock runs from 0 to MaxTime; the rows' initial expiries lie in 0..MaxTime.
MaxTime == 2

\* The concurrent requests.
Calls == {"c1", "c2"}

\* The users owning tokens.
Users == {"u1", "u2"}

-----------------------------------------------------------------------------
(* Settings (knox.settings), scaled to the clock of the model *)

KEY_LENGTH == 1

TOKEN_TTL == 2

MIN_REFRESH_INTERVAL == 1

-----------------------------------------------------------------------------
(* Bytes and words of the Authorization header *)

Whitespace == {" ", "\t"}

\* A byte that is no valid UTF-8.
InvalidUtf8 == {"0xFF"}

HexDigits == {"0", "1", "2", "3", "4", "5", "6", "7", "8", "9",
              "a", "b", "c", "d", "e", "f"}

UpperCase == [T |-> "t", O |-> "o", K |-> "k", E |-> "e", N |-> "n", B |-> "b"]

\* A slip: the scheme is compared as written.
LowerByteAsIs(b) == b

\* bytes.lower(), byte by byte.
LowerByte(b) == IF b \in DOMAIN UpperCase THEN UpperCase[b] ELSE b

Lower(word) == [i \in 1..Len(word) |-> LowerByte(word[i])]

RECURSIVE SplitFrom(_, _, _)
SplitFrom(rest, word, words) ==
    IF rest = <<>>
    THEN IF word = <<>> THEN words ELSE Append(words, word)
    ELSE IF Head(rest) \in Whitespace
         THEN SplitFrom(Tail(rest), <<>>,
                        IF word = <<>> THEN words ELSE Append(words, word))
         ELSE SplitFrom(Tail(rest), Append(word, Head(rest)), words)

\* bytes.split(): the maximal runs of non-whitespace bytes, in order.
Split(header) == SplitFrom(header, <<>>, <<>>)

\* b'token'
TokenKeyword == <<"t", "o", "k", "e", "n">>

\* token.decode("utf-8") raises UnicodeDecodeError on an invalid byte; the bytes
\* of the model are otherwise ASCII, which decode to the same characters.
CanDecode(token) == \A i \in 1..Len(token) : token[i] \notin InvalidUtf8

\* token[:CONSTANTS.TOKEN_KEY_LENGTH]
KeyOf(token) == SubSeq(token, 1, IF Len(token) < KEY_LENGTH THEN Len(token) ELSE KEY_LENGTH)

-----------------------------------------------------------------------------
(* knox.crypto.hash_token and the rows of knox.models.AuthToken *)

\* hash_token unhexlifies the token: it raises on a token that is no
\* even-length string of hexadecimal digits.
WellFormed(token) ==
    /\ Len(token) % 2 = 0
    /\ \A i \in 1..Len(token) : token[i] \in HexDigits

\* The salted digest: a one-way function taken to be collision-free.
HashToken(token, salt) == <<token, salt>>

\* The row stored at issuance for a secret: digest is its primary key.
MakeToken(secret, salt, user, expires) ==
    [digest    |-> HashToken(secret, salt),
     token_key |-> KeyOf(secret),
     salt      |-> salt,
     user      |-> user,
     expires   |-> expires]

\* The secrets issued: the first two to the same user, all with the same key.
Secret1 == <<"a", "1">>
Secret2 == <<"a", "2">>
Secret3 == <<"a", "3">>

Issued == { [secret |-> Secret1, salt |-> "s1", user |-> "u1"],
            [secret |-> Secret2, salt |-> "s2", user |-> "u1"],
            [secret |-> Secret3, salt |-> "s3", user |-> "u2"] }

\* Secrets never issued: a wrong suffix after an issued key, a key no row has,
\* a secret that is no hexadecimal string, a secret that is no UTF-8.
WrongSuffix == <<"a", "4">>
NoSuchKey == <<"b", "1">>
NotHex == <<"a", "g">>
NotUtf8 == <<"a", "0xFF">>

\* The secrets presented.
Secrets == {Secret1, Secret3, WrongSuffix, NoSuchKey, NotHex, NotUtf8}

ExpiryChoices == {None} \cup {At(t) : t \in 0..MaxTime}

\* The tables holding one row for each of the secrets in issued, with every
\* choice of the rows' expiries.
StoresOf(issued) ==
    { [d \in {HashToken(t.secret, t.salt) : t \in issued} |->
         LET t == CHOOSE t \in issued : HashToken(t.secret, t.salt) = d
         IN  MakeToken(t.secret, t.salt, t.user, e[t.salt])]
      : e \in [{t.salt : t \in issued} -> ExpiryChoices] }

-----------------------------------------------------------------------------
(* The Authorization headers presented *)

TokenWord == <<"T", "o", "k", "e", "n">>

SchemeWords == { TokenWord,
                 <<"t", "o", "k", "e", "n">>,
                 <<"T", "O", "K", "E", "N">>,
                 <<"B", "a", "s", "i", "c">> }

RECURSIVE Join(_, _)
Join(words, sep) ==
    IF words = <<>> THEN <<>>
    ELSE IF Len(words) = 1 THEN words[1]
    ELSE words[1] \o sep \o Join(Tail(words), sep)

\* The words of the headers presented: every secret after the scheme Token,
\* and every scheme alone, before a secret and before two secrets.
WordLists ==
    {<<>>}
    \cup { <<w>> : w \in SchemeWords \cup {Secret1} }
    \cup { <<TokenWord, s>> : s \in Secrets }
    \cup { <<w, NoSuchKey>> : w \in SchemeWords }
    \cup { <<w, Secret1, Secret3>> : w \in SchemeWords }

\* The headers presented: the words a space apart, and, for the words of the
\* second kind, set in more whitespace.
Headers ==
    { Join(ws, <<" ">>) : ws \in WordLists }
    \cup { <<" ">> \o Join(ws, <<" ", "\t">>) \o <<"\t">> :
             ws \in {ws \in WordLists : Len(ws) # 2 \/ ws[2] = NoSuchKey} }

\* get_authorization_header(request).split(), for every header presented.
HeaderWords == [h \in Headers |-> Split(h)]

-----------------------------------------------------------------------------
(* The state *)

VARIABLES
    now,           \* timezone.now()
    store,         \* the AuthToken table: primary key (digest) -> row
    active,        \* User.is_active of every user
    auto_refresh,  \* knox_settings.AUTO_REFRESH
    pc,            \* where each request stands
    request,       \* the Authorization header of each request
    token,         \* authenticate_credentials' token
    cands,         \* the rows of the filter query still to be iterated
    auth_token,    \* the loop's auth_token: the candidate, as read
    others,        \* _cleanup_token's rows of the owner still to be iterated
    result,        \* what authenticate returned or raised
    events,        \* the token_expired signals the request sent, in order
    examined,      \* history: the last check of a candidate's own expiry
    store0         \* history: the table as the requests found it

vars == <<now, store, active, auto_refresh, pc, request, token, cands,
          auth_token, others, result, events, examined, store0>>

shared == <<now, store, active, auto_refresh, store0>>

\* No candidate: the value of auth_token outside the loop.
NoToken == [digest |-> <<>>, token_key |-> <<>>, salt |-> "", user |-> "",
            expires |-> None]

\* No candidate's own expiry has been checked.
Unexamined == [digest |-> <<>>, expires |-> None, at |-> 0]

\* A request that has not ended.
Pending == [kind |-> "pending", msg |-> "", user |-> "", token |-> <<>>]

\* authenticate returns None: no credential was presented.
NoCredential == [kind |-> "None", msg |-> "", user |-> "", token |-> <<>>]

\* raise exceptions.AuthenticationFailed(msg)
AuthenticationFailed(msg) ==
    [kind |-> "AuthenticationFailed", msg |-> msg, user |-> "", token |-> <<>>]

\* return (auth_token.user, auth_token)
Authenticated(row) ==
    [kind |-> "success", msg |-> "", user |-> row.user, token |-> <<row>>]

\* An exception that is no AuthenticationFailed leaves authenticate.
Escapes(exception) ==
    [kind |-> exception, msg |-> "", user |-> "", token |-> <<>>]

\* A slip in the comparison: a row is taken to expire one tick late.
ExpiredLate(row, t) == row.expires # None /\ row.expires[1] + 1 < t

\* A slip in the comparison: a row is taken to expire at its expiry already.
ExpiredEarly(row, t) == row.expires # None /\ row.expires[1] <= t

\* row.expires < timezone.now(), for a row whose expires is not None
Expired(row, t) == row.expires # None /\ row.expires[1] < t

\* Model.delete(): DELETE ... WHERE digest = row.digest; a row already gone is
\* no error.
Delete(st, row) == [d \in DOMAIN st \ {row.digest} |-> st[d]]

\* The signal token_expired.send(sender, username, source); digest tells which
\* row the signal was sent for (the signal itself does not carry it).
Signal(row, source) ==
    [source |-> source, username |-> row.user, digest |-> row.digest]

\* The orders in which a query without ORDER BY may return the rows S.
Orderings(S) ==
    { q \in [1..Cardinality(S) -> S] :
        \A i, j \in 1..Cardinality(S) : i # j => q[i] # q[j] }

\* The requests of calls are about to be served from one of the tables stores.
InitWith(calls, stores) ==
    /\ now = 0
    /\ store \in stores
    /\ active \in [Users -> BOOLEAN]
    /\ auto_refresh \in BOOLEAN
    /\ store0 = store
    /\ pc = [c \in calls |-> "authenticate"]
    /\ request = [c \in calls |-> <<>>]
    /\ token = [c \in calls |-> <<>>]
    /\ cands = [c \in calls |-> <<>>]
    /\ auth_token = [c \in calls |-> NoToken]
    /\ others = [c \in calls |-> {}]
    /\ result = [c \in calls |-> Pending]
    /\ events = [c \in calls |-> <<>>]
    /\ examined = [c \in calls |-> Unexamined]

\* One request, served from any table of the issued secrets.
Init == InitWith({"c1"}, StoresOf(Issued))

\* Two concurrent requests, served from a table of the tokens of one user,
\* with every user active.
InitRace ==
    /\ InitWith(Calls, StoresOf({t \in Issued : t.user = "u1"}))
    /\ \A u \in Users : active[u]

\* The request ends with the result r; its local variables are gone.
Ends(c, r) ==
    /\ pc' = [pc EXCEPT ![c] = "done"]
    /\ result' = [result EXCEPT ![c] = r]
    /\ cands' = [cands EXCEPT ![c] = <<>>]
    /\ auth_token' = [auth_token EXCEPT ![c] = NoToken]
    /\ others' = [others EXCEPT ![c] = {}]

\* The request goes on to the step at.
Goto(c, at) ==
    /\ pc' = [pc EXCEPT ![c] = at]
    /\ UNCHANGED result

\* The clock advances.
Tick ==
    /\ now < MaxTime
    /\ now' = now + 1
    /\ UNCHANGED <<store, active, auto_refresh, pc, request, token, cands,
                   auth_token, others, result, events, examined, store0>>

\* authenticate(request), up to the call of authenticate_credentials.
Authenticate(c) ==
    /\ pc[c] = "authenticate"
    /\ \E header \in Headers :
         LET auth == HeaderWords[header] IN
         /\ request' = [request EXCEPT ![c] = header]
         /\ IF auth = <<>> \/ Lower(auth[1]) # TokenKeyword
            THEN Ends(c, NoCredential) /\ UNCHANGED token
            ELSE IF Len(auth) = 1
            THEN /\ Ends(c, AuthenticationFailed(
                              "Invalid token header. No credentials provided."))
                 /\ UNCHANGED token
            ELSE IF Len(auth) > 2
            THEN /\ Ends(c, AuthenticationFailed(
                      "Invalid token header. Token string should not contain spaces."))
                 /\ UNCHANGED token
            ELSE /\ Goto(c, "filter")
                 /\ token' = [token EXCEPT ![c] = auth[2]]
                 /\ UNCHANGED <<cands, auth_token, others>>
    /\ UNCHANGED <<shared, events, examined>>

\* The rows a filter on token_key returns.
WithKey(st, key) == {st[d] : d \in {d \in DOMAIN st : st[d].token_key = key}}

\* A slip: the rows of the owner are not looked at.
OfNoUser(st, user) == {}

\* user.auth_token_set.all()
OfUser(st, user) == {st[d] : d \in {d \in DOMAIN st : st[d].user = user}}

\* authenticate_credentials: the token is decoded and the rows with its key
\* are read, in the order the database returns them.
Filter(c) ==
    /\ pc[c] = "filter"
    /\ IF ~CanDecode(token[c])
       THEN Ends(c, Escapes("UnicodeDecodeError"))
       ELSE /\ \E q \in Orderings(WithKey(store, KeyOf(token[c]))) :
                   cands' = [cands EXCEPT ![c] = q]
            /\ Goto(c, "loop")
            /\ UNCHANGED <<auth_token, others>>
    /\ UNCHANGED <<shared, request, token, events, examined>>

\* The loop takes the next candidate, or ends with no candidate left; with a
\* candidate, _cleanup_token reads the rows of its user.
NextCandidate(c) ==
    /\ pc[c] = "loop"
    /\ IF cands[c] = <<>>
       THEN Ends(c, AuthenticationFailed("Invalid token."))
       ELSE /\ auth_token' = [auth_token EXCEPT ![c] = Head(cands[c])]
            /\ cands' = [cands EXCEPT ![c] = Tail(cands[c])]
            /\ others' = [others EXCEPT ![c] = OfUser(store, Head(cands[c]).user)]
            /\ Goto(c, "cleanup")
    /\ UNCHANGED <<shared, request, token, events, examined>>

\* _cleanup_token, one round of its loop over the user's rows.
CleanupOther(c) ==
    /\ pc[c] = "cleanup"
    /\ \E other_token \in others[c] :
         /\ others' = [others EXCEPT ![c] = others[c] \ {other_token}]
         /\ IF /\ other_token.digest # auth_token[c].digest
               /\ Expired(other_token, now)
            THEN /\ store' = Delete(store, other_token)
                 /\ events' = [events EXCEPT ![c] =
                        Append(events[c], Signal(other_token, "other_token"))]
            ELSE UNCHANGED <<store, events>>
    /\ UNCHANGED <<now, active, auto_refresh, pc, request, token, cands,
                   auth_token, result, examined, store0>>

\* _cleanup_token, after its loop: the candidate's own expiry; the candidate
\* is skipped when it is deleted.
CleanupSelf(c) ==
    /\ pc[c] = "cleanup"
    /\ others[c] = {}
    /\ examined' = [examined EXCEPT ![c] =
           [digest |-> auth_token[c].digest, expires |-> auth_token[c].expires,
            at |-> now]]
    /\ IF Expired(auth_token[c], now)
       THEN /\ store' = Delete(store, auth_token[c])
            /\ events' = [events EXCEPT ![c] =
                   Append(events[c], Signal(auth_token[c], "auth_token"))]
            /\ Goto(c, "loop")
       ELSE /\ Goto(c, "compare")
            /\ UNCHANGED <<store, events>>
    /\ UNCHANGED <<now, active, auto_refresh, request, token, cands, auth_token,
                   others, store0>>

\* hmac.compare_digest
compare_digest(a, b) == a = b

\* A slip: the candidate found by its key is taken for a match.
MatchesKey(tok, row) == row.token_key = KeyOf(tok)

\* Whether the token, hashed with the row's salt, has the row's digest.
Matches(tok, row) == compare_digest(HashToken(tok, row.salt), row.digest)

\* A slip in the loop: the first candidate that does not match fails the
\* request.
CompareFailsAtMismatch(c) ==
    /\ pc[c] = "compare"
    /\ IF ~WellFormed(token[c]) \/ ~Matches(token[c], auth_token[c])
       THEN Ends(c, AuthenticationFailed("Invalid token."))
       ELSE /\ Goto(c, IF auto_refresh THEN "renew" ELSE "validate")
            /\ UNCHANGED <<cands, auth_token, others>>
    /\ UNCHANGED <<shared, request, token, events, examined>>

\* A slip in the handling of hash_token's error: the candidate is passed over
\* and the loop goes on.
CompareSkipsMalformed(c) ==
    /\ pc[c] = "compare"
    /\ Goto(c, IF ~WellFormed(token[c]) THEN "loop"
               ELSE IF Matches(token[c], auth_token[c])
               THEN IF auto_refresh THEN "renew" ELSE "validate"
               ELSE "loop")
    /\ UNCHANGED <<cands, auth_token, others>>
    /\ UNCHANGED <<shared, request, token, events, examined>>

\* A slip in the order: on a match the user is checked at once, and a
\* renewal that would come after the check is not reached.
CompareThenValidate(c) ==
    /\ pc[c] = "compare"
    /\ IF ~WellFormed(token[c])
       THEN Ends(c, AuthenticationFailed("Invalid token."))
       ELSE /\ Goto(c, IF Matches(token[c], auth_token[c]) THEN "validate" ELSE "loop")
            /\ UNCHANGED <<cands, auth_token, others>>
    /\ UNCHANGED <<shared, request, token, events, examined>>

\* The token is hashed with the candidate's salt and compared to its digest.
Compare(c) ==
    /\ pc[c] = "compare"
    /\ IF ~WellFormed(token[c])
       THEN Ends(c, AuthenticationFailed("Invalid token."))
       ELSE /\ Goto(c, IF Matches(token[c], auth_token[c])
                       THEN IF auto_refresh THEN "renew" ELSE "validate"
                       ELSE "loop")
            /\ UNCHANGED <<cands, auth_token, others>>
    /\ UNCHANGED <<shared, request, token, events, examined>>

\* Model.save(update_fields=('expires',)): UPDATE ... WHERE digest = row.digest;
\* Django raises DatabaseError when the update affects no row.
SaveFails(st, row) == row.digest \notin DOMAIN st

\* A slip in the update: the expiry is written to every row of the user.
SaveForUser(st, row) ==
    [d \in DOMAIN st |->
        IF st[d].user = row.user THEN [st[d] EXCEPT !.expires = row.expires]
        ELSE st[d]]

Save(st, row) == [st EXCEPT ![row.digest].expires = row.expires]

\* A slip in the throttle: written at the interval already.
WritesThroughAtInterval(new_expiry, current_expiry) ==
    new_expiry - current_expiry >= MIN_REFRESH_INTERVAL

\* The throttle of renew_token: whether the new expiry is written.
WritesThrough(new_expiry, current_expiry) ==
    new_expiry - current_expiry > MIN_REFRESH_INTERVAL

\* renew_token
Renew(c) ==
    /\ pc[c] = "renew"
    /\ LET current_expiry == auth_token[c].expires
           new_expiry == now + TOKEN_TTL
           renewed == [auth_token[c] EXCEPT !.expires = At(new_expiry)]
       IN  IF current_expiry = None
           THEN \* new_expiry - None
                Ends(c, Escapes("TypeError")) /\ UNCHANGED store
           ELSE IF WritesThrough(new_expiry, current_expiry[1])
           THEN IF SaveFails(store, renewed)
                THEN Ends(c, Escapes("DatabaseError")) /\ UNCHANGED store
                ELSE /\ store' = Save(store, renewed)
                     /\ auth_token' = [auth_token EXCEPT ![c] = renewed]
                     /\ Goto(c, "validate")
                     /\ UNCHANGED <<cands, others>>
           ELSE /\ auth_token' = [auth_token EXCEPT ![c] = renewed]
                /\ Goto(c, "validate")
                /\ UNCHANGED <<store, cands, others>>
    /\ UNCHANGED <<now, active, auto_refresh, request, token, events, examined,
                   store0>>

\* validate_user
Validate(c) ==
    /\ pc[c] = "validate"
    /\ IF ~active[auth_token[c].user]
       THEN Ends(c, AuthenticationFailed("User inactive or deleted."))
       ELSE Ends(c, Authenticated(auth_token[c]))
    /\ UNCHANGED <<shared, request, token, events, examined>>

Next ==
    \/ Tick
    \/ \E c \in DOMAIN pc : Authenticate(c)
    \/ \E c \in DOMAIN pc : Filter(c)
    \/ \E c \in DOMAIN pc : NextCandidate(c)
    \/ \E c \in DOMAIN pc : CleanupOther(c)
    \/ \E c \in DOMAIN pc : CleanupSelf(c)
    \/ \E c \in DOMAIN pc : Compare(c)
    \/ \E c \in DOMAIN pc : Renew(c)
    \/ \E c \in DOMAIN pc : Validate(c)

Spec == Init /\ [][Next]_vars

RaceSpec == InitRace /\ [][Next]_vars

-----------------------------------------------------------------------------
(* Properties *)

\* The last check of request c's candidate found its expiry set and passed.
FoundExpired(c) ==
    /\ examined[c].expires # None
    /\ examined[c].expires[1] < examined[c].at

\* C1. No expired credential is accepted: a request succeeds only with the
\* row whose own expiry it checked last, and that check did not find the
\* expiry set and earlier than the time of the check; a candidate found
\* expired is out of the table and is not the one the request goes on with.
C1_NoExpiredAccepted ==
    \A c \in DOMAIN pc :
        /\ result[c].kind = "success" =>
              /\ result[c].token[1].digest = examined[c].digest
              /\ ~FoundExpired(c)
        /\ FoundExpired(c) =>
              /\ examined[c].digest \notin DOMAIN store
              /\ pc[c] \in {"loop", "cleanup", "done"}
              /\ pc[c] = "cleanup" => auth_token[c].digest # examined[c].digest
              /\ result[c].kind # "success"

\* A request has skipped an expired candidate and has then succeeded with
\* another row.
C1_Witness ==
    \E c \in DOMAIN pc :
        /\ result[c].kind = "success"
        /\ \E i \in DOMAIN events[c] : events[c][i].source = "auth_token"

\* authenticate_credentials has been called for request c.
Called(c) == token[c] # <<>>

\* The rows of the table found that have the key of request c's token.
SameKey(c) ==
    {d \in DOMAIN store0 : store0[d].token_key = SubSeq(token[c], 1, KEY_LENGTH)}

\* The rows of the table found whose digest is that of request c's token.
SameDigest(c) ==
    {d \in DOMAIN store0 : store0[d].digest = HashToken(token[c], store0[d].salt)}

InvalidToken == AuthenticationFailed("Invalid token.")

\* C2. A key shared with stored rows does not authenticate by itself: a
\* request succeeds only with a row that has the key of its token and the
\* digest of its token under the row's salt; a request whose token has the key
\* of stored rows and the digest of none of them ends in the failure
\* "Invalid token.".
C2_PrefixAloneNeverAuthenticates ==
    \A c \in DOMAIN pc :
        /\ result[c].kind = "success" =>
              LET r == result[c].token[1]
              IN  /\ r.token_key = SubSeq(token[c], 1, KEY_LENGTH)
                  /\ r.digest = HashToken(token[c], r.salt)
        /\ ( /\ pc[c] = "done"
             /\ Called(c)
             /\ CanDecode(token[c])
             /\ SameKey(c) # {}
             /\ SameDigest(c) = {} ) => result[c] = InvalidToken

\* A request whose well-formed token has the key of a row that was compared
\* and is still stored, and the digest of no row, has failed.
C2_Witness ==
    \E c \in DOMAIN pc :
        /\ pc[c] = "done"
        /\ Called(c)
        /\ WellFormed(token[c])
        /\ SameDigest(c) = {}
        /\ \E d \in DOMAIN store : store[d].token_key = SubSeq(token[c], 1, KEY_LENGTH)
        /\ result[c] = InvalidToken

\* C3. A valid secret authenticates against its row: a request whose token has
\* the key and the digest of a row of the table found, with the row's user
\* active and the row's expiry unset or not passing while the request runs,
\* ends in success with that user and that row.
C3_ValidSecretAuthenticates ==
    \A c \in DOMAIN pc :
        (pc[c] = "done" /\ Called(c)) =>
            \A d \in SameKey(c) \cap SameDigest(c) :
                ( /\ active[store0[d].user]
                  /\ \/ store0[d].expires = None
                     \/ store0[d].expires[1] >= MaxTime ) =>
                    /\ result[c].kind = "success"
                    /\ result[c].user = store0[d].user
                    /\ result[c].token[1].digest = d

\* C4. The failure of authenticate_credentials is the same value whether no
\* candidate has the key, no digest matches or the matching row's user is
\* inactive: the failure raised with no candidate, "Invalid token.".
C4_OneFailureValue ==
    \A c \in DOMAIN pc :
        (Called(c) /\ result[c].kind = "AuthenticationFailed") =>
            result[c] = InvalidToken

\* The places of a header where a word begins: a byte that is no whitespace,
\* first of the header or after whitespace.
WordStarts(h) ==
    {i \in 1..Len(h) : h[i] \notin Whitespace /\ (i = 1 \/ h[i - 1] \in Whitespace)}

\* The word of h that begins at i: up to the next whitespace or the end.
WordAt(h, i) ==
    LET ends == {j \in i..Len(h) : \A k \in i..j : h[k] \notin Whitespace}
    IN  SubSeq(h, i, CHOOSE j \in ends : \A k \in ends : k <= j)

\* The n-th word of h.
Word(h, n) ==
    WordAt(h, CHOOSE i \in WordStarts(h) :
                 Cardinality({j \in WordStarts(h) : j < i}) = n - 1)

\* The word is "token", in any case.
IsTokenScheme(w) ==
    /\ Len(w) = 5
    /\ w[1] \in {"t", "T"}
    /\ w[2] \in {"o", "O"}
    /\ w[3] \in {"k", "K"}
    /\ w[4] \in {"e", "E"}
    /\ w[5] \in {"n", "N"}

\* The header's first word is the scheme token.
HasTokenScheme(h) == WordStarts(h) # {} /\ IsTokenScheme(Word(h, 1))

\* C5. The classification of the header by authenticate: the result is None
\* exactly when the header has no word or its first word is not "token" in
\* any case; with the scheme token and no word or more than one word after it,
\* the request ends in AuthenticationFailed; authenticate_credentials is
\* called exactly when one word follows the scheme, and with that word; when
\* it is not called the table is as it was found and no signal is sent.
C5_HeaderClassification ==
    \A c \in DOMAIN pc :
        pc[c] # "authenticate" =>
            LET h == request[c]
                n == Cardinality(WordStarts(h))
            IN  /\ (result[c] = NoCredential) <=> ~HasTokenScheme(h)
                /\ (HasTokenScheme(h) /\ n # 2) =>
                       /\ pc[c] = "done"
                       /\ result[c].kind = "AuthenticationFailed"
                /\ Called(c) <=> (HasTokenScheme(h) /\ n = 2)
                /\ Called(c) => token[c] = Word(h, 2)
                /\ ~Called(c) => (store = store0 /\ events[c] = <<>>)

\* A header with the scheme in upper case and two words after it has ended in
\* the failure.
C5_Witness ==
    \E c \in DOMAIN pc :
        /\ pc[c] = "done"
        /\ Cardinality(WordStarts(request[c])) = 3
        /\ Word(request[c], 1) = <<"T", "O", "K", "E", "N">>
        /\ result[c].kind = "AuthenticationFailed"

\* Request c has sent the signal with this source for the row of this digest.
Signalled(c, source, digest) ==
    \E i \in DOMAIN events[c] :
        events[c][i].source = source /\ events[c][i].digest = digest

\* C6. The check of the candidate's own expiry in _cleanup_token: it reports
\* true (the loop goes on to the next candidate) exactly when the candidate's
\* expires is set and earlier than now; then the candidate is out of the table
\* and one signal with source "auth_token" and the owner's name is sent; else
\* the table and the signals are left as they are and the candidate goes on
\* to the comparison.  A request whose token has the digest of a candidate it
\* found expired ends in "Invalid token." with the row gone.
C6_CandidateExpiry ==
    /\ [][\A c \in DOMAIN pc :
            (pc[c] = "cleanup" /\ others[c] = {} /\ pc'[c] # pc[c]) =>
                LET a == auth_token[c]
                    past == a.expires # None /\ a.expires[1] < now
                IN  /\ (pc'[c] = "loop") <=> past
                    /\ (pc'[c] = "compare") <=> ~past
                    /\ past =>
                          /\ a.digest \notin DOMAIN store'
                          /\ events'[c] = Append(events[c],
                                 [source |-> "auth_token", username |-> a.user,
                                  digest |-> a.digest])
                    /\ ~past => (store' = store /\ events'[c] = events[c])]_vars
    /\ [](\A c \in DOMAIN pc :
            (pc[c] = "done" /\ Called(c)) =>
                \A d \in SameDigest(c) :
                    Signalled(c, "auth_token", d) =>
                        (result[c] = InvalidToken /\ d \notin DOMAIN store))

\* A request presenting the secret of a row it found expired has ended.
C6_Witness ==
    \E c \in DOMAIN pc :
        /\ pc[c] = "done"
        /\ Called(c)
        /\ \E d \in SameDigest(c) : Signalled(c, "auth_token", d)

\* C7. The throttle of the renewal: when renew_token runs on a candidate
\* whose expires is set, with new_expiry = now + TOKEN_TTL, the row's stored
\* expires becomes new_expiry when new_expiry less the candidate's expires
\* exceeds MIN_REFRESH_INTERVAL, and the table is left as it is when it does
\* not; either way the candidate, which is what the request returns, carries
\* new_expiry.
C7_RenewalThrottle ==
    [][\A c \in DOMAIN pc :
        /\ (pc[c] = "renew" /\ pc'[c] # pc[c] /\ auth_token[c].expires # None) =>
              LET d == auth_token[c].digest
                  new_expiry == now + TOKEN_TTL
                  delta == new_expiry - auth_token[c].expires[1]
              IN  /\ d \in DOMAIN store
                  /\ pc'[c] = "validate"
                  /\ auth_token'[c] = [auth_token[c] EXCEPT !.expires = <<new_expiry>>]
                  /\ (store'[d].expires # store[d].expires) <=>
                         (delta > MIN_REFRESH_INTERVAL)
                  /\ delta > MIN_REFRESH_INTERVAL =>
                         store' = [store EXCEPT ![d].expires = <<new_expiry>>]
                  /\ ~(delta > MIN_REFRESH_INTERVAL) => store' = store
        /\ (pc[c] = "validate" /\ result'[c].kind = "success") =>
              result'[c].token = <<auth_token[c]>>]_vars

\* A renewal has been throttled: the candidate carries an expiry that its
\* stored row does not.
C7_Witness ==
    \E c \in DOMAIN pc :
        /\ pc[c] = "validate"
        /\ auto_refresh
        /\ auth_token[c].digest \in DOMAIN store
        /\ store[auth_token[c].digest].expires # auth_token[c].expires

\* C8. Cleanup is idempotent: a run of _cleanup_token on a candidate that an
\* earlier run of the same request has found expired and deleted (the signal
\* for its row has been sent) raises nothing, sends no further signal and
\* leaves the table as it is.
C8_CleanupIdempotent ==
    [][\A c \in DOMAIN pc :
        ( /\ pc[c] = "cleanup"
          /\ \E s \in {"other_token", "auth_token"} :
                 Signalled(c, s, auth_token[c].digest) ) =>
            /\ pc'[c] \in {"cleanup", "loop"}
            /\ events'[c] = events[c]
            /\ store' = store]_vars

\* C9. Concurrent cleanup is safe: when two requests have both found the same
\* row expired (each read it before the other deleted it) and have both sent
\* the signal for it, both deletions have gone through, the row is out of the
\* table, and each request has ended as it would have alone: in a success or
\* an AuthenticationFailed, or in the TypeError of C3, and not in the error
\* of a write that no request running alone can meet.
C9_ConcurrentCleanupSafe ==
    \A c, o \in DOMAIN pc :
        (c # o /\ pc[c] = "done" /\ pc[o] = "done") =>
            \A d \in DOMAIN store0 :
                ( /\ \E s \in {"other_token", "auth_token"} : Signalled(c, s, d)
                  /\ \E s \in {"other_token", "auth_token"} : Signalled(o, s, d) ) =>
                    /\ d \notin DOMAIN store
                    /\ result[c].kind \in {"success", "AuthenticationFailed", "TypeError"}

\* C10. A failed durable write never fails the authentication: the deletes of
\* _cleanup_token never end the request, and once the digest has matched the
\* renewal goes on to the check of the user, with the same candidate,
\* whatever became of its write.
C10_WriteFailureSwallowed ==
    [][\A c \in DOMAIN pc :
        /\ pc[c] = "cleanup" => pc'[c] \in {"cleanup", "loop", "compare"}
        /\ (pc[c] = "renew" /\ pc'[c] # pc[c] /\ auth_token[c].expires # None) =>
              /\ pc'[c] = "validate"
              /\ auth_token'[c].digest = auth_token[c].digest]_vars

\* Request c has sent this many signals with source "other_token" for the row
\* of this digest.
SweptTimes(c, digest) ==
    Cardinality({i \in DOMAIN events[c] :
                   events[c][i].source = "other_token" /\ events[c][i].digest = digest})

\* C11. The sweep of the owner's rows for every candidate examined: when
\* _cleanup_token begins on a candidate it reads every row of the candidate's
\* user; each round of its loop takes one of these rows and, exactly when the
\* row's digest differs from the candidate's and its expires is set and
\* earlier than now, deletes it and sends one signal with source "other_token"
\* and the owner's name, leaving the table and the signals as they are
\* otherwise; the candidate is compared only after every row read has had its
\* round.  So when a candidate is compared, whether the request then succeeds
\* or fails, every other row of its user that is gone has its expires set and
\* in the past, every other row with expires unset or not in the past is
\* stored with the values found, and no row has had more than one signal with
\* source "other_token".
C11_OwnerSweep ==
    /\ [][\A c \in DOMAIN pc :
            /\ (pc[c] = "loop" /\ pc'[c] = "cleanup") =>
                  others'[c] = {store[d] : d \in {d \in DOMAIN store :
                                    store[d].user = auth_token'[c].user}}
            /\ (pc[c] = "cleanup" /\ others'[c] # others[c]) =>
                  \E o \in others[c] :
                      LET a == auth_token[c]
                          past == /\ o.digest # a.digest
                                  /\ o.expires # None
                                  /\ o.expires[1] < now
                      IN  /\ others'[c] = others[c] \ {o}
                          /\ pc'[c] = "cleanup"
                          /\ past =>
                                /\ o.digest \notin DOMAIN store'
                                /\ \A d \in DOMAIN store \ {o.digest} :
                                       d \in DOMAIN store' /\ store'[d] = store[d]
                                /\ events'[c] = Append(events[c],
                                       [source |-> "other_token",
                                        username |-> a.user, digest |-> o.digest])
                          /\ ~past => (store' = store /\ events'[c] = events[c])
            /\ (pc[c] # "compare" /\ pc'[c] = "compare") =>
                  (pc[c] = "cleanup" /\ others[c] = {})]_vars
    /\ [](\A c \in DOMAIN pc :
            /\ \A d \in DOMAIN store0 : SweptTimes(c, d) <= 1
            /\ pc[c] = "compare" =>
                  \A d \in DOMAIN store0 :
                      ( /\ store0[d].user = auth_token[c].user
                        /\ d # auth_token[c].digest ) =>
                          /\ d \notin DOMAIN store =>
                                /\ Expired(store0[d], now)
                                /\ \E s \in {"other_token", "auth_token"} :
                                       Signalled(c, s, d)
                          /\ ~Expired(store0[d], now) =>
                                (d \in DOMAIN store /\ store[d] = store0[d])
                          /\ SweptTimes(c, d) = 1 => d \notin DOMAIN store)

\* A candidate is about to be compared after a sweep that has deleted the
\* other row of its user and has left the row of another user, whose expires
\* is in the past as well, in the table.
C11_Witness ==
    \E c \in DOMAIN pc :
        /\ pc[c] = "compare"
        /\ \E d, e \in DOMAIN store0 :
              /\ d # auth_token[c].digest
              /\ store0[d].user = auth_token[c].user
              /\ SweptTimes(c, d) = 1
              /\ d \notin DOMAIN store
              /\ store0[e].user # auth_token[c].user
              /\ e \in DOMAIN store
              /\ Expired(store[e], now)

\* C12. The renewal comes before the check of the user: with AUTO_REFRESH on,
\* validate_user is reached only from renew_token, on a candidate that carries
\* the renewed expiry now + TOKEN_TTL of the time of the renewal, and the
\* row's stored expires is that expiry when the gain over the expiry found
\* exceeds MIN_REFRESH_INTERVAL and the expiry found when it does not; the
\* check of the user leaves the table as it is, so a request that fails for
\* an inactive user leaves the renewed expiry stored.
C12_RenewalBeforeValidation ==
    [][\A c \in DOMAIN pc :
        /\ (pc[c] # "validate" /\ pc'[c] = "validate") =>
              pc[c] = (IF auto_refresh THEN "renew" ELSE "compare")
        /\ (pc[c] = "validate" /\ pc'[c] = "done") =>
              LET a == auth_token[c]
                  d == a.digest
              IN  /\ store' = store
                  /\ ~active[a.user] =>
                        result'[c].kind = "AuthenticationFailed"
                  /\ auto_refresh =>
                        /\ d \in DOMAIN store
                        /\ store0[d].expires # None
                        /\ \E t \in 0..now :
                              /\ a.expires = <<t + TOKEN_TTL>>
                              /\ IF t + TOKEN_TTL - store0[d].expires[1]
                                       > MIN_REFRESH_INTERVAL
                                 THEN store[d].expires = <<t + TOKEN_TTL>>
                                 ELSE store[d] = store0[d]]_vars

\* A request has failed for an inactive user and has left a renewed expiry
\* stored for the row its token matched.
C12_Witness ==
    \E c \in DOMAIN pc :
        /\ pc[c] = "done"
        /\ result[c] = AuthenticationFailed("User inactive or deleted.")
        /\ \E d \in SameDigest(c) :
              /\ d \in DOMAIN store
              /\ store[d].expires # store0[d].expires

\* The rows whose stored expires is not the one found.
Renewed == {d \in DOMAIN store \cap DOMAIN store0 : store[d].expires # store0[d].expires}

\* C13. The renewal is confined to the matched candidate under AUTO_REFRESH:
\* a request adds no row and changes no field but expires; the rows whose
\* stored expires it has changed are at most one, the row whose digest its
\* token matched, changed by renew_token with AUTO_REFRESH on; with
\* AUTO_REFRESH off, or when the token matches no row, every row still stored
\* is as it was found, so that deletion is the only change to the table.
C13_RenewalConfined ==
    /\ DOMAIN store \subseteq DOMAIN store0
    /\ \A d \in DOMAIN store :
          store[d] = [store0[d] EXCEPT !.expires = store[d].expires]
    /\ Cardinality(Renewed) <= 1
    /\ \A d \in Renewed :
          /\ auto_refresh
          /\ \E c \in DOMAIN pc :
                /\ Called(c)
                /\ d \in SameDigest(c)
                /\ pc[c] \in {"validate", "done"}
                /\ pc[c] = "validate" => auth_token[c].digest = d
                /\ pc[c] = "done" => examined[c].digest = d
    /\ (~auto_refresh \/ \A c \in DOMAIN pc : ~Called(c) \/ SameDigest(c) = {}) =>
          \A d \in DOMAIN store : store[d] = store0[d]

\* A request has renewed the row its token matched after deleting another
\* row, and the third row is stored as it was found.
C13_Witness ==
    \E c \in DOMAIN pc :
        /\ pc[c] = "done"
        /\ Renewed # {}
        /\ DOMAIN store # DOMAIN store0
        /\ \E d \in DOMAIN store \ Renewed : store[d] = store0[d]

\* C14. A malformed secret stops the search: when the token of a candidate
\* that has passed its cleanup cannot be hashed, the request ends at once in
\* "Invalid token.", with candidates left or not, and the table and the
\* signals are as the cleanups so far have left them; a request that has ended
\* takes no further step, so no later candidate is examined, cleaned up or
\* compared, and the rows deleted stay deleted: the rows of a user none of
\* whose rows was a candidate so far are stored as they were found.
C14_MalformedStopsSearch ==
    /\ [][\A c \in DOMAIN pc :
            /\ (pc[c] = "compare" /\ pc'[c] # pc[c] /\ ~WellFormed(token[c])) =>
                  /\ pc'[c] = "done"
                  /\ result'[c] = InvalidToken
                  /\ store' = store
                  /\ events'[c] = events[c]
            /\ pc[c] = "done" =>
                  /\ pc'[c] = "done"
                  /\ result'[c] = result[c]
                  /\ events'[c] = events[c]
                  /\ examined'[c] = examined[c]
                  /\ store' = store]_vars
    /\ [](\A c \in DOMAIN pc :
            ( /\ pc[c] = "done"
              /\ Called(c)
              /\ CanDecode(token[c])
              /\ ~WellFormed(token[c]) ) =>
                /\ result[c] = InvalidToken
                /\ \A i \in DOMAIN events[c] :
                       events[c][i].digest \notin DOMAIN store
                /\ (examined[c] # Unexamined /\ ~FoundExpired(c)) =>
                       \A d \in DOMAIN store0 :
                           (store0[d].user # store0[examined[c].digest].user
                              /\ ~Signalled(c, "auth_token", d)
                              /\ \A e \in DOMAIN store0 :
                                     Signalled(c, "auth_token", e) =>
                                         store0[e].user # store0[d].user) =>
                               (d \in DOMAIN store /\ store[d] = store0[d]))

\* A request with a malformed token has ended at the first candidate compared,
\* after deleting a row of that candidate's user, with a row of the same key
\* and an expiry in the past never examined and still stored.
C14_Witness ==
    \E c \in DOMAIN pc :
        /\ pc[c] = "done"
        /\ Called(c)
        /\ ~WellFormed(token[c])
        /\ result[c] = InvalidToken
        /\ examined[c] # Unexamined
        /\ ~FoundExpired(c)
        /\ events[c] # <<>>
        /\ \E d \in SameKey(c) \cap DOMAIN store : Expired(store[d], examined[c].at)

\* C15. The outcomes of authenticate are three: with one request, whose reads
\* and writes of the table all go through, a request that has ended has
\* returned None, has returned a user and the user's row, or has raised
\* AuthenticationFailed; no other exception leaves authenticate.
C15_OutcomeTotality ==
    \A c \in DOMAIN pc :
        /\ pc[c] = "done" =>
              \/ result[c] = NoCredential
              \/ /\ result[c].kind = "success"
                 /\ result[c].token # <<>>
                 /\ result[c].user = result[c].token[1].user
              \/ result[c].kind = "AuthenticationFailed"
        /\ pc[c] # "done" => result[c] = Pending

\* C16. Only expired rows are deleted, under concurrency too: whenever a step
\* of a request takes a row out of the table, the expires stored for the row
\* at that moment is set and earlier than now, whatever the other requests
\* have done to the row since it was read.
C16_OnlyExpiredDeleted ==
    [][\A d \in DOMAIN store :
          d \notin DOMAIN store' =>
              (store[d].expires # None /\ store[d].expires[1] < now)]_vars

\* C17. One signal for a deleted row in one call: the signals a request has
\* sent, of whichever source, are for different rows.
C17_OneEventPerRecord ==
    \A c \in DOMAIN pc :
        \A i, j \in DOMAIN events[c] :
            events[c][i].digest = events[c][j].digest => i = j

\* C18. The outcome does not depend on the order of the candidates: for every
\* order in which the filter returns the rows of the key, with at most one row
\* of the token's digest, the result of a request that has ended is fixed by
\* the table found, the token, the settings and the clock.  With no row of the
\* digest the result is "Invalid token.".  With the row of the digest, either
\* the row's own check found its expires set and in the past and the result
\* is "Invalid token.", or that check, the last of the request, let the row
\* pass with the expires found, and the result is the one of renew_token and
\* validate_user on that row: the error of an unset expires under
\* AUTO_REFRESH, the failure of an inactive user, or the success with the
\* row's user and the row, carrying the expires found or, under AUTO_REFRESH,
\* the renewed one.
C18_OrderIndependent ==
    \A c \in DOMAIN pc :
        (pc[c] = "done" /\ Called(c) /\ CanDecode(token[c])) =>
            LET matching == SameKey(c) \cap SameDigest(c)
            IN  /\ Cardinality(matching) <= 1
                /\ matching = {} => result[c] = InvalidToken
                /\ \A d \in matching :
                      LET row == store0[d]
                      IN  IF Signalled(c, "auth_token", d)
                          THEN /\ result[c] = InvalidToken
                               /\ Expired(row, now)
                          ELSE /\ examined[c].digest = d
                               /\ examined[c].expires = row.expires
                               /\ ~Expired(row, examined[c].at)
                               /\ IF auto_refresh /\ row.expires = None
                                  THEN result[c] = Escapes("TypeError")
                                  ELSE IF ~active[row.user]
                                  THEN result[c] = AuthenticationFailed(
                                                      "User inactive or deleted.")
                                  ELSE IF ~auto_refresh
                                  THEN result[c] = Authenticated(row)
                                  ELSE \E t \in examined[c].at..now :
                                          result[c] = Authenticated(
                                             [row EXCEPT !.expires = <<t + TOKEN_TTL>>])

\* A request has succeeded with the row of its token after the cleanup of a
\* candidate of another user, returned before that row, deleted a row.
C18_Witness ==
    \E c \in DOMAIN pc :
        /\ result[c].kind = "success"
        /\ \E i \in DOMAIN events[c] :
              /\ events[c][i].source = "other_token"
              /\ events[c][i].username # result[c].user

====
